---- MODULE Spec2Model ----
(***************************************************************************)
(* StudentVUE grade exporter (src/main.py): get_credentials,               *)
(* fetch_gradebook_data, write_data_to_csv and main, as a state machine.   *)
(*                                                                         *)
(* Text is modelled as a sequence of atoms: an opening tag (with its       *)
(* attributes), a closing tag, a word of character data, or a run of       *)
(* escaped character data that itself holds a sequence of atoms (the       *)
(* XML-escaped gradebook inside the SOAP envelope).  Parsing builds the    *)
(* element tree from the atoms; find / find_all search the descendants of  *)
(* a node in document order, as BeautifulSoup does.                        *)
(***************************************************************************)
EXTENDS Integers, Sequences, FiniteSets, TLC

VARIABLES
    pc,             \* position of main: "start", "open", "loop", "write", "done"
    period,         \* loop variable of main (line 138)
    credentials,    \* <<username, password>> once get_credentials returned
    fileOpen,       \* the output file is open (inside the with block)
    out,            \* rows in grades.csv, in the order written
    gradebook_soup, \* result of the last fetch_gradebook_data call
    printed,        \* messages printed so far
    uncaught,       \* class of the exception that escaped main, or None
    served,         \* history: what the service answered to each period's POST
    returned,       \* history: how each fetch_gradebook_data call ended
    fault           \* history: the step that raised inside main's try, or None

vars == <<pc, period, credentials, fileOpen, out, gradebook_soup, printed, uncaught,
          served, returned, fault>>

----------------------------------------------------------------------------
(* Bounds of the model *)

\* Documents drawn for write_data_to_csv alone hold at most this many
\* Course + Mark + Assignment elements.
MaxElements == 6

\* Documents served to a run of main hold at most this many elements.
MaxRunElements == 5

----------------------------------------------------------------------------
(* Program constants *)

REPORTING_PERIODS == 4

OUTPUT_COLUMNS == 14

\* Python's None.
None == "<None>"

csv_header ==
    << "Quarter", "Course Title", "Room", "Teacher", "Period", "Overall Score",
       "Mark", "Assignment", "Type", "Date Assigned", "Date Due", "Score",
       "Points", "Notes" >>

----------------------------------------------------------------------------
(* Exceptions: the class hierarchy the except clauses dispatch on *)

\* Direct base class of each exception class that can be raised in a run.
BaseOf(cls) ==
    CASE cls = "ConnectionError"  -> "RequestException"
      [] cls = "HTTPError"        -> "RequestException"
      [] cls = "RequestException" -> "IOError"
      [] cls = "IOError"          -> "Exception"
      [] cls = "AttributeError"   -> "Exception"
      [] cls = "EOFError"         -> "Exception"
      [] OTHER                    -> None

RECURSIVE IsInstance(_, _)
IsInstance(cls, handler) ==
    IF cls = handler THEN TRUE
    ELSE IF BaseOf(cls) = None THEN FALSE
    ELSE IsInstance(BaseOf(cls), handler)

----------------------------------------------------------------------------
(* XML text and trees *)

NoAttrs == [k \in {} |-> ""]

OpenTag(name, attrs) == [t |-> "open", name |-> name, attrs |-> attrs, text |-> <<>>]
CloseTag(name) == [t |-> "close", name |-> name, attrs |-> NoAttrs, text |-> <<>>]
Word(w) == [t |-> "word", name |-> w, attrs |-> NoAttrs, text |-> <<>>]
Escaped(atoms) == [t |-> "chars", name |-> "", attrs |-> NoAttrs, text |-> atoms]

Element(name, attrs) == [name |-> name, attrs |-> attrs, children |-> <<>>, text |-> <<>>]
TextNode(text) == [name |-> "#text", attrs |-> NoAttrs, children |-> <<>>, text |-> text]

\* The parser's stack of open elements; the innermost is last.
AddChild(stack, node) ==
    [stack EXCEPT ![Len(stack)].children = Append(@, node)]

CloseTop(stack) ==
    AddChild(SubSeq(stack, 1, Len(stack) - 1), stack[Len(stack)])

RECURSIVE CloseAll(_)
CloseAll(stack) ==
    IF Len(stack) <= 1 THEN stack[1] ELSE CloseAll(CloseTop(stack))

RECURSIVE ParseFrom(_, _, _)
ParseFrom(atoms, i, stack) ==
    IF i > Len(atoms) THEN CloseAll(stack)
    ELSE LET a == atoms[i] IN
         CASE a.t = "open"  -> ParseFrom(atoms, i + 1, Append(stack, Element(a.name, a.attrs)))
           [] a.t = "close" -> ParseFrom(atoms, i + 1,
                                   IF Len(stack) > 1 THEN CloseTop(stack) ELSE stack)
           [] a.t = "word"  -> ParseFrom(atoms, i + 1, AddChild(stack, TextNode(<<a>>)))
           [] OTHER         -> ParseFrom(atoms, i + 1, AddChild(stack, TextNode(a.text)))

\* BeautifulSoup(markup, 'lxml-xml'): the document node over the parsed tree.
BeautifulSoup(atoms) == ParseFrom(atoms, 1, <<Element("[document]", NoAttrs)>>)

\* All descendants of a node, in document order.
RECURSIVE Descendants(_)
RECURSIVE DescendantsOfAll(_, _)
DescendantsOfAll(nodes, i) ==
    IF i > Len(nodes) THEN <<>>
    ELSE <<nodes[i]>> \o Descendants(nodes[i]) \o DescendantsOfAll(nodes, i + 1)
Descendants(node) == DescendantsOfAll(node.children, 1)

IsNamed(node, name) == node.name = name

\* A search of the node's own children only (find_all(..., recursive=False)).
find_all_children(node, name) == SelectSeq(node.children, LAMBDA n : IsNamed(n, name))

find_all(node, name) == SelectSeq(Descendants(node), LAMBDA n : IsNamed(n, name))

\* find: the first match, or nothing; the result is <<node>> or <<>>.
find(node, name) ==
    LET all == find_all(node, name) IN
    IF all = <<>> THEN <<>> ELSE <<all[1]>>

\* tag.get(key): the attribute's value, None when the tag lacks it.
Get(node, key) == IF key \in DOMAIN node.attrs THEN node.attrs[key] ELSE None

\* tag.text: the character data of the node's subtree, concatenated.
RECURSIVE TextOfAll(_, _)
TextOfAll(nodes, i) ==
    IF i > Len(nodes) THEN <<>>
    ELSE (IF nodes[i].name = "#text" THEN nodes[i].text ELSE <<>>) \o TextOfAll(nodes, i + 1)
TextOf(node) == TextOfAll(Descendants(node), 1)

\* The strings of the model that contain the substring "ERROR".
ErrorStrings == {"ERROR", "RT_ERROR", "ERROR_MESSAGE", "ERROR ANALYSIS LAB"}

StringHasError(s) == s \in ErrorStrings

AtomHasError(a) ==
    \/ StringHasError(a.name)
    \/ \E k \in DOMAIN a.attrs : StringHasError(k) \/ StringHasError(a.attrs[k])

\* A structured check: the payload's root element is RT_ERROR.
ContainsError_root_only(text) == Len(text) > 0 /\ text[1].name = "RT_ERROR"

\* "ERROR" in text
ContainsError(text) == \E i \in 1..Len(text) : AtomHasError(text[i])

----------------------------------------------------------------------------
(* write_data_to_csv *)

Placeholder == "N/A"

\* csv.writer.writerow: a None field is written as the empty string.
writerow(row) == [i \in 1..Len(row) |-> IF row[i] = None THEN "" ELSE row[i]]

MarkFields(course, mark) ==
    << Get(mark, "MarkName"), Get(course, "Title"), Get(course, "Room"),
       Get(course, "Staff"), Get(course, "Period"),
       Get(mark, "CalculatedScoreString"), Get(mark, "MarkName") >>

PlaceholderRow(course, mark) ==
    MarkFields(course, mark) \o
    << Placeholder, Placeholder, Placeholder, Placeholder, Placeholder, Placeholder, Placeholder >>

AssignmentRow(course, mark, assignment) ==
    MarkFields(course, mark) \o
    << Get(assignment, "Measure"), Get(assignment, "Type"),
       Get(assignment, "Date"), Get(assignment, "DueDate"),
       Get(assignment, "Score"), Get(assignment, "Points"), Get(assignment, "Notes") >>

\* A flattener without the branch of lines 101-107.
RowsOfMark_no_placeholder(course, mark) ==
    LET assignments == find_all(mark, "Assignment") IN
    [i \in 1..Len(assignments) |-> writerow(AssignmentRow(course, mark, assignments[i]))]

\* Lines 96-117: the rows written for one Mark.
RowsOfMark(course, mark) ==
    LET assignments == find_all(mark, "Assignment") IN
    IF assignments = <<>>
    THEN << writerow(PlaceholderRow(course, mark)) >>
    ELSE [i \in 1..Len(assignments) |-> writerow(AssignmentRow(course, mark, assignments[i]))]

\* The Marks of a Course taken last to first.
RECURSIVE RowsOfMarks_reversed(_, _, _)
RowsOfMarks_reversed(course, marks, i) ==
    IF i > Len(marks) THEN <<>>
    ELSE RowsOfMarks_reversed(course, marks, i + 1) \o RowsOfMark(course, marks[i])

RECURSIVE RowsOfMarks(_, _, _)
RowsOfMarks(course, marks, i) ==
    IF i > Len(marks) THEN <<>>
    ELSE RowsOfMark(course, marks[i]) \o RowsOfMarks(course, marks, i + 1)

\* Lines 89-117: the rows written for one Course.
RowsOfCourse(course) == RowsOfMarks(course, find_all(course, "Mark"), 1)

RECURSIVE RowsOfCourses(_, _)
RowsOfCourses(courses, i) ==
    IF i > Len(courses) THEN <<>>
    ELSE RowsOfCourse(courses[i]) \o RowsOfCourses(courses, i + 1)

\* The rows write_data_to_csv hands to the writer, in order.
write_data_to_csv(soup) == RowsOfCourses(find_all(soup, "Course"), 1)

----------------------------------------------------------------------------
(* The gradebook documents the service can return.  A document is described *)
(* by its shape, a sequence of Courses, each a sequence of Marks, each the  *)
(* number of its Assignments, and by how its attributes are filled.         *)

RECURSIVE MarkSeqsOfWeight(_)
MarkSeqsOfWeight(w) ==
    IF w = 0 THEN {<<>>}
    ELSE UNION { { <<n>> \o rest : rest \in MarkSeqsOfWeight(w - 1 - n) } : n \in 0..(w - 1) }

CoursesOfWeight(w) == IF w = 0 THEN {} ELSE MarkSeqsOfWeight(w - 1)

RECURSIVE ShapesOfWeight(_)
ShapesOfWeight(w) ==
    IF w = 0 THEN {<<>>}
    ELSE UNION { { <<c>> \o rest : c \in CoursesOfWeight(j), rest \in ShapesOfWeight(w - j) }
                 : j \in 1..w }

ShapesUpTo(n) == UNION { ShapesOfWeight(w) : w \in 0..n }

\* The Marks of a shape, each as <<index of its Course, index in the Course>>.
MarksOf(shape) ==
    UNION { { <<ci, mi>> : mi \in 1..Len(shape[ci]) } : ci \in 1..Len(shape) }

\* "distinct": every element has its own attribute values; "same": all
\* elements of a kind share their values; "bare": optional attributes absent.
Fillings == {"distinct", "same", "bare"}

Pick(table, i) == table[((i - 1) % Len(table)) + 1]

Titles == <<"Algebra", "Biology", "Chemistry", "Drama", "English", "French", "German", "History">>
Rooms == <<"12", "14", "16", "18", "20", "22", "24", "26">>
Staffs == <<"Smith", "Jones", "Brown", "Khan", "Lee", "Diaz", "Roy", "Katz">>
MarkNames == <<"Q1", "Q2", "Q3", "Q4", "S1", "S2", "MP7", "MP8">>
ScoreStrings == <<"95%", "88%", "71%", "64%", "52%", "100%", "0%", "79%">>
Measures == <<"HW1", "HW2", "Quiz", "Lab", "Essay", "Test", "Project", "Final">>
Types == <<"Homework", "Classwork", "Assessment", "Homework", "Essay", "Assessment", "Project", "Exam">>
Dates == <<"9/1", "9/8", "9/15", "9/22", "9/29", "10/6", "10/13", "10/20">>
Scores == <<"10/10", "8/10", "7/10", "6/10", "5/10", "9/10", "0/10", "4/10">>

Idx(filling, i) == IF filling = "same" THEN 1 ELSE i

CourseAttrs(filling, ci) ==
    LET i == Idx(filling, ci) IN
    IF filling = "bare"
    THEN [k \in {"Title"} |-> Pick(Titles, i)]
    ELSE [k \in {"Title", "Room", "Staff", "Period"} |->
            CASE k = "Title" -> Pick(Titles, i)
              [] k = "Room"  -> Pick(Rooms, i)
              [] k = "Staff" -> Pick(Staffs, i)
              [] OTHER       -> Pick(MarkNames, i + 4)]

MarkAttrs(filling, ci, mi) ==
    LET i == Idx(filling, mi) IN
    IF filling = "bare"
    THEN [k \in {"MarkName"} |-> Pick(MarkNames, i)]
    ELSE [k \in {"MarkName", "CalculatedScoreString"} |->
            IF k = "MarkName" THEN Pick(MarkNames, i)
            ELSE Pick(ScoreStrings, Idx(filling, ci + mi))]

AssignmentAttrs(filling, ai) ==
    LET i == Idx(filling, ai) IN
    IF filling = "bare"
    THEN [k \in {"Measure", "Score"} |->
            IF k = "Measure" THEN Pick(Measures, i) ELSE Pick(Scores, i)]
    ELSE [k \in {"Measure", "Type", "Date", "DueDate", "Score", "Points", "Notes"} |->
            CASE k = "Measure" -> Pick(Measures, i)
              [] k = "Type"    -> Pick(Types, i)
              [] k = "Date"    -> Pick(Dates, i)
              [] k = "DueDate" -> Pick(Dates, i + 1)
              [] k = "Score"   -> Pick(Scores, i)
              [] k = "Points"  -> "10"
              [] OTHER         -> Pick(Types, i + 2)]

\* The gradebook XML of a shape.  wrap: the Courses / Marks / Assignments
\* container elements and their siblings are present, as in the service's output.
RECURSIVE AssignmentAtoms(_, _, _)
AssignmentAtoms(filling, n, ai) ==
    IF ai > n THEN <<>>
    ELSE << OpenTag("Assignment", AssignmentAttrs(filling, ai)), CloseTag("Assignment") >>
         \o AssignmentAtoms(filling, n, ai + 1)

MarkAtoms(filling, wrap, ci, mi, n) ==
    << OpenTag("Mark", MarkAttrs(filling, ci, mi)) >>
    \o (IF wrap THEN << OpenTag("GradeCalculationSummary", NoAttrs),
                        CloseTag("GradeCalculationSummary"),
                        OpenTag("Assignments", NoAttrs) >> ELSE <<>>)
    \o AssignmentAtoms(filling, n, 1)
    \o (IF wrap THEN << CloseTag("Assignments") >> ELSE <<>>)
    \o << CloseTag("Mark") >>

RECURSIVE MarksAtoms(_, _, _, _, _)
MarksAtoms(filling, wrap, ci, marks, mi) ==
    IF mi > Len(marks) THEN <<>>
    ELSE MarkAtoms(filling, wrap, ci, mi, marks[mi]) \o MarksAtoms(filling, wrap, ci, marks, mi + 1)

CourseAtoms(filling, wrap, ci, marks) ==
    << OpenTag("Course", CourseAttrs(filling, ci)) >>
    \o (IF wrap THEN << OpenTag("Marks", NoAttrs) >> ELSE <<>>)
    \o MarksAtoms(filling, wrap, ci, marks, 1)
    \o (IF wrap THEN << CloseTag("Marks") >> ELSE <<>>)
    \o << CloseTag("Course") >>

RECURSIVE CoursesAtoms(_, _, _, _)
CoursesAtoms(filling, wrap, shape, ci) ==
    IF ci > Len(shape) THEN <<>>
    ELSE CourseAtoms(filling, wrap, ci, shape[ci]) \o CoursesAtoms(filling, wrap, shape, ci + 1)

GradebookAtoms(doc) ==
    << OpenTag("Gradebook", [k \in {"Type"} |->
            IF doc.marker = "attr" THEN "ERROR ANALYSIS LAB" ELSE "Traditional"]) >>
    \o (IF doc.marker = "word" THEN << Word("ERROR") >> ELSE <<>>)
    \o (IF doc.wrap THEN << OpenTag("ReportingPeriod", [k \in {"GradePeriod"} |-> "Q1"]),
                            CloseTag("ReportingPeriod"),
                            OpenTag("Courses", NoAttrs) >> ELSE <<>>)
    \o CoursesAtoms(doc.filling, doc.wrap, doc.shape, 1)
    \o (IF doc.wrap THEN << CloseTag("Courses") >> ELSE <<>>)
    \o << CloseTag("Gradebook") >>

\* marker: where the text of the document holds "ERROR": nowhere, in a word
\* of character data, or inside an attribute value.
Markers == {"none", "word", "attr"}

Documents(n) == [shape : ShapesUpTo(n), filling : Fillings, wrap : BOOLEAN, marker : {"none"}]

\* The shapes served to a run of main: one gradebook for each number of
\* elements.
RunShapeTable ==
    << <<>>,
       << <<>> >>,
       << <<0>> >>,
       << <<1>> >>,
       << <<1, 0>> >>,
       << <<0>>, <<1>> >>,
       << <<1, 0>>, <<0>> >>,
       << <<1, 0>>, <<1>> >>,
       << <<1, 0>>, <<2>> >> >>

RunShapes == { RunShapeTable[k + 1] : k \in 0..MaxRunElements }

RunDocuments == [shape : RunShapes, filling : {"distinct"}, wrap : {TRUE}, marker : Markers]

NoDocument == [shape |-> <<>>, filling |-> "bare", wrap |-> FALSE, marker |-> "none"]

----------------------------------------------------------------------------
(* The answers of the service to one POST *)

ResultEnvelope(payload) ==
    << OpenTag("soap:Envelope", NoAttrs), OpenTag("soap:Body", NoAttrs),
       OpenTag("ProcessWebServiceRequestResponse", NoAttrs),
       OpenTag("ProcessWebServiceRequestResult", NoAttrs),
       Escaped(payload),
       CloseTag("ProcessWebServiceRequestResult"),
       CloseTag("ProcessWebServiceRequestResponse"),
       CloseTag("soap:Body"), CloseTag("soap:Envelope") >>

FaultEnvelope ==
    << OpenTag("soap:Envelope", NoAttrs), OpenTag("soap:Body", NoAttrs),
       OpenTag("soap:Fault", NoAttrs), Word("Server"), CloseTag("soap:Fault"),
       CloseTag("soap:Body"), CloseTag("soap:Envelope") >>

RtErrorPayload ==
    << OpenTag("RT_ERROR", [k \in {"ERROR_MESSAGE"} |-> "Invalid user id or password"]),
       CloseTag("RT_ERROR") >>

\* label names the case for the history; the program reads transport,
\* status and content only.
Response(label, transport, status, content, doc) ==
    [label |-> label, transport |-> transport, status |-> status,
     content |-> content, doc |-> doc]

Responses ==
    { Response("transport", "ConnectionError", 0, <<>>, NoDocument) }
    \cup { Response("http", None, st, FaultEnvelope, NoDocument) : st \in {404, 500} }
    \cup { Response("http", None, 503, ResultEnvelope(GradebookAtoms(d)), NoDocument)
             : d \in {d \in RunDocuments : d.marker = "none" /\ d.shape = <<>>} }
    \cup { Response("no_result", None, 200, c, NoDocument) : c \in {<<>>, FaultEnvelope} }
    \cup { Response("rt_error", None, 200, ResultEnvelope(RtErrorPayload), NoDocument) }
    \cup { Response("error_in_document", None, 200, ResultEnvelope(GradebookAtoms(d)), NoDocument)
             : d \in {d \in RunDocuments : d.marker # "none" /\ MarksOf(d.shape) # {}} }
    \cup { Response("empty_payload", None, 200, ResultEnvelope(<<>>), NoDocument) }
    \cup { Response("document", None, 200, ResultEnvelope(GradebookAtoms(d)), d)
             : d \in {d \in RunDocuments : d.marker = "none"} }

----------------------------------------------------------------------------
(* fetch_gradebook_data *)

\* The outcome of a call or block: the exception raised (None when it
\* returned), the value returned (<<>> is None, <<soup>> a document) and the
\* messages printed.
Raised(cls, log) == [raised |-> cls, value |-> <<>>, log |-> log]
Returned(value, log) == [raised |-> None, value |-> value, log |-> log]

\* response.raise_for_status(): raises for a 4xx or 5xx status.
RaisesForStatus(status) == 400 <= status /\ status < 600

\* Lines 67-78, the body of the try statement.
FetchTryBody(resp, p) ==
    LET log0 == << <<"requesting", p + 1>> >> IN
    IF resp.transport # None THEN Raised(resp.transport, log0)
    ELSE IF RaisesForStatus(resp.status) THEN Raised("HTTPError", log0)
    ELSE LET soup == BeautifulSoup(resp.content)
             result == find(soup, "ProcessWebServiceRequestResult")
         IN IF result = <<>> THEN Raised("AttributeError", log0)
            ELSE LET gradebook_xml_content == TextOf(result[1]) IN
                 IF ContainsError(gradebook_xml_content)
                 THEN Returned(<<>>, Append(log0, <<"server_error", p + 1>>))
                 ELSE Returned(<< BeautifulSoup(gradebook_xml_content) >>,
                               Append(log0, <<"retrieved", p + 1>>))

\* An except clause for requests.exceptions.ConnectionError only.
FetchCatches_connection_only(cls) == IsInstance(cls, "ConnectionError")

\* No except clause at all.
FetchCatches_nothing(cls) == FALSE

\* Line 80: the classes the except clause of fetch_gradebook_data catches.
FetchCatches(cls) == IsInstance(cls, "RequestException")

fetch_gradebook_data(resp, p) ==
    LET body == FetchTryBody(resp, p) IN
    IF body.raised # None /\ FetchCatches(body.raised)
    THEN Returned(<<>>, Append(body.log, <<"network_error", p + 1>>))
    ELSE body

----------------------------------------------------------------------------
(* main *)

\* Lines 148-151: the message main prints for an exception raised inside its
\* try statement; None when no except clause matches.
MainHandler(cls) ==
    IF IsInstance(cls, "IOError") THEN "file_error"
    ELSE IF IsInstance(cls, "Exception") THEN "unexpected_error"
    ELSE None

\* An exception raised inside the try statement of main: the with block is
\* left (the file and the session are closed) and the handler prints.
RaiseInTry(cls, log, step) ==
    /\ fault' = step
    /\ fileOpen' = FALSE
    /\ pc' = "done"
    /\ IF MainHandler(cls) = None
       THEN /\ uncaught' = cls
            /\ printed' = printed \o log
       ELSE /\ uncaught' = uncaught
            /\ printed' = printed \o log \o << <<MainHandler(cls), 0>> >>

\* bool(x) for the strings os.getenv returns.
Truthy(x) == x # None /\ x # ""

EnvValues == {None, "", "set"}

\* Lines 124-125 with get_credentials (15-31).  input() raises EOFError when
\* standard input is closed; the call is outside the try statement.
GetCredentials ==
    /\ pc = "start"
    /\ \E username \in EnvValues, password \in EnvValues, stdinOpen \in BOOLEAN :
         IF Truthy(username) /\ Truthy(password)
         THEN /\ credentials' = <<username, password>>
              /\ printed' = printed \o << <<"banner", 0>>, <<"credentials_loaded", 0>> >>
              /\ pc' = "open"
              /\ uncaught' = uncaught
         ELSE IF stdinOpen
         THEN /\ credentials' = <<"typed", "typed">>
              /\ printed' = printed \o << <<"banner", 0>>, <<"credentials_prompt", 0>> >>
              /\ pc' = "open"
              /\ uncaught' = uncaught
         ELSE /\ credentials' = credentials
              /\ printed' = printed \o << <<"banner", 0>>, <<"credentials_prompt", 0>> >>
              /\ pc' = "done"
              /\ uncaught' = "EOFError"
    /\ UNCHANGED <<period, fileOpen, out, gradebook_soup, served, returned, fault>>

\* Lines 133-136: open the session and the file, write the header.
OpenOutput ==
    /\ pc = "open"
    /\ \E openFails \in BOOLEAN, headerFails \in BOOLEAN :
         IF openFails
         THEN /\ RaiseInTry("IOError", <<>>, "open")
              /\ UNCHANGED <<out, period>>
         ELSE IF headerFails
         THEN /\ RaiseInTry("IOError", <<>>, "header")
              /\ out' = <<>>
              /\ UNCHANGED period
         ELSE /\ fileOpen' = TRUE
              /\ out' = << writerow(csv_header) >>
              /\ period' = 0
              /\ pc' = "loop"
              /\ UNCHANGED <<printed, uncaught, fault>>
    /\ UNCHANGED <<credentials, gradebook_soup, served, returned>>

\* Line 139: one call of fetch_gradebook_data.
Fetch ==
    /\ pc = "loop"
    /\ period < REPORTING_PERIODS
    /\ \E resp \in Responses :
         LET r == fetch_gradebook_data(resp, period) IN
         /\ served' = Append(served, [label |-> resp.label, doc |-> resp.doc])
         /\ IF r.raised # None
            THEN /\ returned' = Append(returned, r.raised)
                 /\ RaiseInTry(r.raised, r.log, "fetch")
                 /\ UNCHANGED gradebook_soup
            ELSE /\ returned' = Append(returned, IF r.value = <<>> THEN "None" ELSE "soup")
                 /\ gradebook_soup' = r.value
                 /\ printed' = printed \o r.log
                 /\ pc' = "write"
                 /\ UNCHANGED <<fileOpen, uncaught, fault>>
    /\ UNCHANGED <<period, credentials, out>>

\* if gradebook_soup: a BeautifulSoup object is true whatever it holds.
SoupIsTrue(soup) == soup # <<>>

\* The rows line 142 hands to the writer for the value fetch returned.
RowsToWrite(soup) == IF SoupIsTrue(soup) THEN write_data_to_csv(soup[1]) ELSE <<>>

\* The file reopened for writing for each period: earlier rows are lost.
WriteRows_truncating ==
    /\ pc = "write"
    /\ LET rows == RowsToWrite(gradebook_soup) IN
       \E failAt \in 0..Len(rows) :
         IF failAt = 0
         THEN /\ out' = (IF rows = <<>> THEN out ELSE << writerow(csv_header) >> \o rows)
              /\ period' = period + 1
              /\ pc' = "loop"
              /\ UNCHANGED <<fileOpen, printed, uncaught, fault>>
         ELSE /\ out' = << writerow(csv_header) >> \o SubSeq(rows, 1, failAt - 1)
              /\ RaiseInTry("IOError", <<>>, "row")
              /\ UNCHANGED period
    /\ UNCHANGED <<credentials, gradebook_soup, served, returned>>

\* Lines 141-144: write the rows of the period, sleep, next period.  A
\* writerow call can fail (IOError); the rows before it are in the file.
WriteRows ==
    /\ pc = "write"
    /\ LET rows == RowsToWrite(gradebook_soup) IN
       \E failAt \in 0..Len(rows) :
         IF failAt = 0
         THEN /\ out' = out \o rows
              /\ period' = period + 1
              /\ pc' = "loop"
              /\ UNCHANGED <<fileOpen, printed, uncaught, fault>>
         ELSE /\ out' = out \o SubSeq(rows, 1, failAt - 1)
              /\ RaiseInTry("IOError", <<>>, "row")
              /\ UNCHANGED period
    /\ UNCHANGED <<credentials, gradebook_soup, served, returned>>

\* Line 146: the loop is over, the with block is left, completion is printed.
Complete ==
    /\ pc = "loop"
    /\ period = REPORTING_PERIODS
    /\ fileOpen' = FALSE
    /\ printed' = Append(printed, <<"complete", 0>>)
    /\ pc' = "done"
    /\ UNCHANGED <<period, credentials, out, gradebook_soup, uncaught, served, returned, fault>>

Init ==
    /\ pc = "start"
    /\ period = 0
    /\ credentials = <<>>
    /\ fileOpen = FALSE
    /\ out = <<>>
    /\ gradebook_soup = <<>>
    /\ printed = <<>>
    /\ uncaught = None
    /\ served = <<>>
    /\ returned = <<>>
    /\ fault = None

Next == GetCredentials \/ OpenOutput \/ Fetch \/ WriteRows \/ Complete

Spec == Init /\ [][Next]_vars

----------------------------------------------------------------------------
(* write_data_to_csv on its own: every document up to MaxElements elements *)

FlattenInit ==
    /\ pc = "write"
    /\ period = 0
    /\ credentials = <<"set", "set">>
    /\ fileOpen = TRUE
    /\ out = <<>>
    /\ \E d \in Documents(MaxElements) :
         /\ gradebook_soup = << BeautifulSoup(GradebookAtoms(d)) >>
         /\ served = << [label |-> "document", doc |-> d] >>
    /\ printed = <<>>
    /\ uncaught = None
    /\ returned = << "soup" >>
    /\ fault = None

FlattenDocument ==
    /\ pc = "write"
    /\ out' = out \o write_data_to_csv(gradebook_soup[1])
    /\ pc' = "written"
    /\ UNCHANGED <<period, credentials, fileOpen, gradebook_soup, printed, uncaught,
                   served, returned, fault>>

FlattenNext == FlattenDocument

FlattenSpec == FlattenInit /\ [][FlattenNext]_vars

----------------------------------------------------------------------------
(* What a document should yield, from its shape alone *)

AttrOrEmpty(attrs, k) == IF k \in DOMAIN attrs THEN attrs[k] ELSE ""

ExpectedMarkFields(d, ci, mi) ==
    LET c == CourseAttrs(d.filling, ci)
        m == MarkAttrs(d.filling, ci, mi)
    IN << AttrOrEmpty(m, "MarkName"), AttrOrEmpty(c, "Title"), AttrOrEmpty(c, "Room"),
          AttrOrEmpty(c, "Staff"), AttrOrEmpty(c, "Period"),
          AttrOrEmpty(m, "CalculatedScoreString"), AttrOrEmpty(m, "MarkName") >>

ExpectedAssignmentFields(d, ai) ==
    LET a == AssignmentAttrs(d.filling, ai)
    IN << AttrOrEmpty(a, "Measure"), AttrOrEmpty(a, "Type"), AttrOrEmpty(a, "Date"),
          AttrOrEmpty(a, "DueDate"), AttrOrEmpty(a, "Score"), AttrOrEmpty(a, "Points"),
          AttrOrEmpty(a, "Notes") >>

AllPlaceholders == [i \in 1..7 |-> "N/A"]

RECURSIVE SumTo(_, _)
SumTo(numbers, k) == IF k = 0 THEN 0 ELSE numbers[k] + SumTo(numbers, k - 1)

RowCountOfMark(n) == IF n = 0 THEN 1 ELSE n

MarkRowCounts(marks) == [mi \in 1..Len(marks) |-> RowCountOfMark(marks[mi])]

CourseRowCounts(shape) ==
    [ci \in 1..Len(shape) |-> SumTo(MarkRowCounts(shape[ci]), Len(shape[ci]))]

ExpectedRowCount(shape) == SumTo(CourseRowCounts(shape), Len(shape))

\* The number of rows due before the first row of Mark mi of Course ci.
RowsBeforeMark(shape, ci, mi) ==
    SumTo(CourseRowCounts(shape), ci - 1) + SumTo(MarkRowCounts(shape[ci]), mi - 1)

\* The positions of the rows of `rows` whose first seven fields are `fields`.
RowsCarrying(rows, fields) == { i \in 1..Len(rows) : SubSeq(rows[i], 1, 7) = fields }

FlattenedDocument == served[1].doc

----------------------------------------------------------------------------
(* Claims about write_data_to_csv, under FlattenSpec *)

\* C4: a Mark without Assignment elements gets exactly one row; its seven
\* assignment fields are "N/A" and its other seven fields are the Mark's
\* name and score and its Course's title, room, staff and period.
C4_PlaceholderRow ==
    pc = "written" =>
        LET d == FlattenedDocument IN
        /\ Len(out) = ExpectedRowCount(d.shape)
        /\ \A cm \in MarksOf(d.shape) :
             d.shape[cm[1]][cm[2]] = 0 =>
                LET k == RowsBeforeMark(d.shape, cm[1], cm[2]) + 1
                    fields == ExpectedMarkFields(d, cm[1], cm[2])
                IN /\ out[k] = fields \o AllPlaceholders
                   /\ Len(out[k]) = OUTPUT_COLUMNS
                   /\ d.filling # "same" => RowsCarrying(out, fields) = {k}

C4_Witness ==
    /\ pc = "written"
    /\ Len(FlattenedDocument.shape) >= 2
    /\ \E cm \in MarksOf(FlattenedDocument.shape) : FlattenedDocument.shape[cm[1]][cm[2]] = 0
    /\ \E cm \in MarksOf(FlattenedDocument.shape) : FlattenedDocument.shape[cm[1]][cm[2]] >= 2
    /\ Len(out) >= 3

\* C5: a Mark with N >= 1 Assignment elements gets exactly N rows, one per
\* Assignment in order, each with that Mark's name and score and its own
\* Course's title, room, staff and period.
C5_RowPerAssignment ==
    pc = "written" =>
        LET d == FlattenedDocument IN
        /\ Len(out) = ExpectedRowCount(d.shape)
        /\ \A cm \in MarksOf(d.shape) :
             LET n == d.shape[cm[1]][cm[2]]
                 k == RowsBeforeMark(d.shape, cm[1], cm[2])
                 fields == ExpectedMarkFields(d, cm[1], cm[2])
             IN n >= 1 =>
                /\ \A ai \in 1..n : out[k + ai] = fields \o ExpectedAssignmentFields(d, ai)
                /\ d.filling # "same" => RowsCarrying(out, fields) = (k + 1)..(k + n)

C5_Witness ==
    /\ pc = "written"
    /\ Len(FlattenedDocument.shape) >= 2
    /\ FlattenedDocument.wrap
    /\ \E cm \in MarksOf(FlattenedDocument.shape) :
         /\ cm[1] = 2
         /\ FlattenedDocument.shape[cm[1]][cm[2]] >= 2
    /\ Len(FlattenedDocument.shape[1]) >= 1
    /\ Len(out) >= 3

----------------------------------------------------------------------------
(* Claims about a run of main, under Spec *)

Reported(msg) == \E i \in 1..Len(printed) : printed[i][1] = msg

Periods == 1..Len(served)

RequestFailed(i) == served[i].label \in {"transport", "http"}

ErrorMarked(i) == served[i].label \in {"rt_error", "error_in_document"}

PeriodFailed(i) == RequestFailed(i) \/ ErrorMarked(i) \/ served[i].label = "no_result"

\* The row due at position k of a document's rows.
MarkAtRow(shape, k) ==
    CHOOSE cm \in MarksOf(shape) :
        /\ RowsBeforeMark(shape, cm[1], cm[2]) < k
        /\ k <= RowsBeforeMark(shape, cm[1], cm[2]) + RowCountOfMark(shape[cm[1]][cm[2]])

ExpectedRow(d, k) ==
    LET cm == MarkAtRow(d.shape, k)
        n == d.shape[cm[1]][cm[2]]
    IN ExpectedMarkFields(d, cm[1], cm[2]) \o
       (IF n = 0 THEN AllPlaceholders
        ELSE ExpectedAssignmentFields(d, k - RowsBeforeMark(d.shape, cm[1], cm[2])))

ExpectedRows(d) == [k \in 1..ExpectedRowCount(d.shape) |-> ExpectedRow(d, k)]

\* The data rows due after the first n periods, in order.
RECURSIVE ExpectedData(_)
ExpectedData(n) ==
    IF n = 0 THEN <<>>
    ELSE ExpectedData(n - 1) \o
         (IF returned[n] = "soup" THEN ExpectedRows(served[n].doc) ELSE <<>>)

\* What write_data_to_csv produces for the document served in period i.
RowsOfServed(i) == write_data_to_csv(BeautifulSoup(GradebookAtoms(served[i].doc)))

\* The rows write_data_to_csv produces for the documents the first n
\* fetches returned, period after period.
RECURSIVE RowsOfFetched(_)
RowsOfFetched(n) ==
    IF n = 0 THEN <<>>
    ELSE RowsOfFetched(n - 1) \o (IF returned[n] = "soup" THEN RowsOfServed(n) ELSE <<>>)

\* The number of rows due for them, from the shapes of the documents.
RECURSIVE RowCountOfFetched(_)
RowCountOfFetched(n) ==
    IF n = 0 THEN 0
    ELSE RowCountOfFetched(n - 1) +
         (IF returned[n] = "soup" THEN ExpectedRowCount(served[n].doc.shape) ELSE 0)

IsPrefix(a, b) == Len(a) <= Len(b) /\ a = SubSeq(b, 1, Len(a))

C2_ParseFailureRecoverable ==
    \A i \in Periods :
        served[i].label = "no_result" => returned[i] = "None" /\ fault # "fetch"

\* C3: after a run that reports completion the data rows are the rows
\* write_data_to_csv produces for the documents of the periods whose fetch
\* returned one, period by period; the other periods add no row.
C3_RowsOfCompletedRun ==
    (pc = "done" /\ Reported("complete")) =>
        /\ Len(served) = REPORTING_PERIODS
        /\ Len(out) - 1 = RowCountOfFetched(REPORTING_PERIODS)
        /\ SubSeq(out, 2, Len(out)) = RowsOfFetched(REPORTING_PERIODS)

C3_Witness ==
    /\ pc = "done"
    /\ Reported("complete")
    /\ returned[1] = "soup" /\ ExpectedRowCount(served[1].doc.shape) >= 2
    /\ returned[2] = "None"
    /\ returned[3] = "soup" /\ ExpectedRowCount(served[3].doc.shape) >= 1
    /\ returned[REPORTING_PERIODS] = "None"

\* C6: a result payload whose text holds "ERROR" makes the fetch return None
\* and its period write no row, whatever else the payload holds; a payload
\* without it comes back as the parsed document.
C6_ErrorMarkerDropsPeriod ==
    /\ [](\A i \in Periods :
            /\ ErrorMarked(i) => returned[i] = "None"
            /\ served[i].label \in {"document", "empty_payload"} => returned[i] = "soup"
            /\ (i = Len(served) /\ pc = "write" /\ ErrorMarked(i)) => gradebook_soup = <<>>
            /\ (i = Len(served) /\ pc = "write" /\ served[i].label = "document") =>
                 gradebook_soup = << BeautifulSoup(GradebookAtoms(served[i].doc)) >>)
    /\ [][(pc = "write" /\ ErrorMarked(Len(served))) => (out' = out /\ pc' = "loop")]_vars

C6_Witness ==
    /\ pc = "loop"
    /\ Len(served) = 2
    /\ served[1].label = "document" /\ Len(out) >= 3
    /\ served[2].label = "error_in_document"
    /\ returned[2] = "None"

\* C7: when the fetch of each of the four periods fails, the file holds the
\* header row only, four fetches were made and completion is reported.
C7_AllPeriodsFail ==
    (pc = "done" /\ Len(served) = REPORTING_PERIODS /\ \A i \in Periods : PeriodFailed(i)) =>
        /\ out = << csv_header >>
        /\ Reported("complete")
        /\ ~Reported("unexpected_error") /\ ~Reported("file_error")

\* C8: no exception escapes main; every error ends in a printed message.
C8_NoErrorEscapes ==
    pc = "done" =>
        /\ uncaught = None
        /\ Reported("complete") \/ Reported("file_error") \/ Reported("unexpected_error")

\* C9: the file error message is printed exactly for a failure of open or
\* writerow, the generic message exactly for another failure inside the
\* run, and after either no further period is fetched.
C9_FatalReportsApart ==
    /\ [](/\ fault # None => pc = "done" /\ ~Reported("complete")
          /\ Reported("file_error") <=> fault \in {"open", "header", "row"}
          /\ Reported("unexpected_error") <=> fault = "fetch")
    /\ [][fault # None => served' = served /\ out' = out]_vars

C9_Witness ==
    /\ pc = "done"
    /\ fault = "row"
    /\ Reported("file_error")
    /\ Len(served) = 2
    /\ RequestFailed(1)
    /\ Len(out) >= 2

====
